---- MODULE Spec2Model ----
(***************************************************************************)
(* Model of the AquaChat chat-session store and the reveal ("streaming")   *)
(* timers of src/app/index.tsx (AppContent and MenuPanel).                 *)
(*                                                                         *)
(* Strings are sequences of one-character strings, so that trim, slice,    *)
(* startsWith and the whitespace-capturing split are computed as the code  *)
(* computes them.  An id string is the pair of its literal prefix and the  *)
(* clock value whose decimal rendering follows the prefix.                 *)
(***************************************************************************)
EXTENDS Integers, Sequences, FiniteSets, TLC

\* ------------------------------------------------------------------ bounds
MaxClock == 2       \* Date.now() ranges over 1..MaxClock
MaxUser == 3        \* presses of the user in one run
MaxPending == 2     \* setItem calls that are outstanding at once

\* what MaxUser presses can make: two messages, one awaited call and one
\* interval per press
MaxMsgs == 2 * MaxUser
MaxCalls == MaxUser
MaxTimers == MaxUser

\* ------------------------------------------------------- program constants
TitleMax == 30

NewChatTitle == <<"N", "e", "w", " ", "C", "h", "a", "t">>
Thinking == <<"t", "h", "i", "n", "k", "i", "n", "g">>
ErrorPrefix == <<"E", "r", "r", "o", "r", ":">>
Ellipsis == <<".", ".", ".">>
SorryText == <<"S", "o", "r", "r", "y", ",", " ", "I", " ", "e", "n", "c", "o", "u", "n", "t", "e", "r", "e", "d", " ", "a", "n", " ", "e", "r", "r", "o", "r", " ", "w", "h", "i", "l", "e", " ", "p", "r", "o", "c", "e", "s", "s", "i", "n", "g", " ", "y", "o", "u", "r", " ", "r", "e", "q", "u", "e", "s", "t", ".">>
LoadingPrefix == "loading-"

\* ------------------------------------------------------------------ inputs
PromptShort == <<" ", "h", "i">>
PromptLong == [i \in 1..(TitleMax + 1) |-> "y"]
Prompts == {PromptShort, PromptLong}

ReplyAB == <<"a", " ", "b">>
ReplyC == <<" ", "c">>
Outcomes ==
  { [k |-> "text", v |-> ReplyAB],
    [k |-> "text", v |-> ReplyC],
    [k |-> "error", v |-> <<"x">>] }

\* the ways generateResponse fails: a thrown Error, a thrown value that is not one
FailureOutcomes ==
  { [k |-> "error", v |-> <<"x">>],
    [k |-> "other", v |-> <<>>] }

\* ------------------------------------------------------------ string model
IsSpace(c) == c = " "

Min(a, b) == IF a < b THEN a ELSE b

\* String.prototype.slice(0, n)
Slice(s, n) == SubSeq(s, 1, Min(Len(s), n))

\* String.prototype.startsWith
StartsWith(s, p) == Len(s) >= Len(p) /\ SubSeq(s, 1, Len(p)) = p

RECURSIVE TrimStart(_)
TrimStart(s) ==
  IF s # <<>> /\ IsSpace(Head(s)) THEN TrimStart(Tail(s)) ELSE s

RECURSIVE TrimEnd(_)
TrimEnd(s) ==
  IF s # <<>> /\ IsSpace(s[Len(s)]) THEN TrimEnd(SubSeq(s, 1, Len(s) - 1)) ELSE s

\* String.prototype.trim
Trim(s) == TrimEnd(TrimStart(s))

\* length of the longest prefix of s made of spaces (sp) or of non-spaces
RECURSIVE RunLen(_, _)
RunLen(s, sp) ==
  IF s # <<>> /\ (IsSpace(Head(s)) <=> sp) THEN 1 + RunLen(Tail(s), sp) ELSE 0

\* a split that does not capture the separators, response.split(/\s+/)
RECURSIVE SplitWithoutSeparators(_)
SplitWithoutSeparators(s) ==
  LET w == RunLen(s, FALSE)
      rest == SubSeq(s, w + 1, Len(s))
      g == RunLen(rest, TRUE)
  IN IF rest = <<>>
       THEN <<SubSeq(s, 1, w)>>
       ELSE <<SubSeq(s, 1, w)>> \o SplitWithoutSeparators(SubSeq(rest, g + 1, Len(rest)))

\* response.split(/(\s+)/): words and the whitespace runs between them
RECURSIVE SplitOnSpace(_)
SplitOnSpace(s) ==
  LET w == RunLen(s, FALSE)
      rest == SubSeq(s, w + 1, Len(s))
      g == RunLen(rest, TRUE)
  IN IF rest = <<>>
       THEN <<SubSeq(s, 1, w)>>
       ELSE <<SubSeq(s, 1, w), SubSeq(rest, 1, g)>>
              \o SplitOnSpace(SubSeq(rest, g + 1, Len(rest)))

\* concatenation of the first k tokens
RECURSIVE Concat(_, _)
Concat(ws, k) == IF k = 0 THEN <<>> ELSE Concat(ws, k - 1) \o ws[k]

\* Date.now().toString() behind a literal prefix
IdStr(prefix, t) == [pre |-> prefix, t |-> t]

Null == [pre |-> "null", t |-> 0]

\* ----------------------------------------------------------------- records
Message(id, txt, isUser) == [id |-> id, text |-> txt, isUser |-> isUser]

Chat(id, title, msgs, c, u) ==
  [id |-> id, title |-> title, messages |-> msgs, createdAt |-> c, updatedAt |-> u]

\* ------------------------------------------------------------------ sorting
\* Array.prototype.sort((a, b) => b.updatedAt - a.updatedAt), which is stable
RECURSIVE SortByUpdatedAt(_)
SortByUpdatedAt(s) ==
  IF s = <<>> THEN <<>>
  ELSE LET n == Len(s)
           init == SortByUpdatedAt(SubSeq(s, 1, n - 1))
           x == s[n]
           k == Cardinality({i \in 1..Len(init) : init[i].updatedAt >= x.updatedAt})
       IN SubSeq(init, 1, k) \o <<x>> \o SubSeq(init, k + 1, Len(init))

\* ------------------------------------------------------------ JSON storage
\* JSON.stringify of one Chat: every field keeps its JSON type and value
JsonOfChat(c) ==
  [id |-> [t |-> "string", v |-> c.id],
   title |-> [t |-> "string", v |-> c.title],
   messages |-> [t |-> "array", v |-> c.messages],
   createdAt |-> [t |-> "number", v |-> c.createdAt],
   updatedAt |-> [t |-> "number", v |-> c.updatedAt]]

\* JSON.stringify of the array of chats
Stringify(cs) == [kind |-> "array", items |-> [i \in 1..Len(cs) |-> JsonOfChat(cs[i])]]

\* AsyncStorage.getItem('chats') === null
NullBlob == [kind |-> "null", items |-> <<>>]

\* the stored text is not JSON: JSON.parse throws
GarbageBlob == [kind |-> "garbage", items |-> <<>>]

\* the stored text parses to a value that is not an array
ObjectBlob == [kind |-> "object", items |-> <<>>]

\* AsyncStorage.getItem('chats') rejects
ReadRejected == [kind |-> "rejected", items |-> <<>>]

Fields == {"id", "title", "messages", "createdAt", "updatedAt"}

\* a JSON type the validation filter refuses for the field
WrongType(f) ==
  CASE f = "id" -> "number"
    [] f = "title" -> "undefined"
    [] f = "messages" -> "object"
    [] OTHER -> "string"

\* the stored record of c with a value of a wrong type in the fields of F
Damaged(c, F) ==
  [id |-> IF "id" \in F THEN [t |-> WrongType("id"), v |-> c.id]
          ELSE JsonOfChat(c).id,
   title |-> IF "title" \in F THEN [t |-> WrongType("title"), v |-> c.title]
             ELSE JsonOfChat(c).title,
   messages |-> IF "messages" \in F THEN [t |-> WrongType("messages"), v |-> c.messages]
                ELSE JsonOfChat(c).messages,
   createdAt |-> IF "createdAt" \in F THEN [t |-> WrongType("createdAt"), v |-> c.createdAt]
                 ELSE JsonOfChat(c).createdAt,
   updatedAt |-> IF "updatedAt" \in F THEN [t |-> WrongType("updatedAt"), v |-> c.updatedAt]
                 ELSE JsonOfChat(c).updatedAt]

\* a filter that also tests chat.messages.length, which an empty array fails
IsValidChatWithMessages(j) ==
  /\ j.id.t = "string"
  /\ j.title.t = "string"
  /\ j.messages.t = "array"
  /\ j.messages.v # <<>>
  /\ j.createdAt.t = "number"
  /\ j.updatedAt.t = "number"

\* the validation filter of loadChats
IsValidChat(j) ==
  /\ j.id.t = "string"
  /\ j.title.t = "string"
  /\ j.messages.t = "array"
  /\ j.createdAt.t = "number"
  /\ j.updatedAt.t = "number"

ChatOfJson(j) == Chat(j.id.v, j.title.v, j.messages.v, j.createdAt.v, j.updatedAt.v)

\* a load that gives up the whole array when one record is invalid
ValidChatsOrNone(items) ==
  IF \A i \in 1..Len(items) : IsValidChat(items[i])
    THEN [i \in 1..Len(items) |-> ChatOfJson(items[i])]
    ELSE <<>>

RECURSIVE ValidChats(_)
ValidChats(items) ==
  IF items = <<>> THEN <<>>
  ELSE (IF IsValidChat(Head(items)) THEN <<ChatOfJson(Head(items))>> ELSE <<>>)
         \o ValidChats(Tail(items))

\* a test that takes text that is not JSON for a stored value
ParsesOrGarbage(blob) == blob.kind \in {"array", "object", "garbage"}

\* if (savedChats) and JSON.parse(savedChats) does not throw
Parses(blob) == blob.kind \in {"array", "object"}

\* the list loadChats passes to setChats for a blob that parses
LoadedChats(blob) ==
  IF blob.kind = "array" THEN SortByUpdatedAt(ValidChats(blob.items)) ELSE <<>>

\* a save that writes the list in the order it was given
SaveChatsUnsorted(chatsToSave) == Stringify(chatsToSave)

\* const sortedChats = [...chatsToSave].sort(...); setItem('chats', JSON.stringify(sortedChats))
SaveChatsToStorage(chatsToSave) == Stringify(SortByUpdatedAt(chatsToSave))

\* --------------------------------------------------------- store functions
\* currentChats.findIndex(chat => chat.id === chatId), 1-based, 0 when absent
FindIndex(cs, chatId) ==
  IF \E i \in 1..Len(cs) : cs[i].id = chatId
    THEN CHOOSE i \in 1..Len(cs) :
           /\ cs[i].id = chatId
           /\ \A k \in 1..(i - 1) : cs[k].id # chatId
    ELSE 0

\* newMessages.find(m => m.isUser), 0 when absent
FirstUser(msgs) ==
  IF \E i \in 1..Len(msgs) : msgs[i].isUser
    THEN CHOOSE i \in 1..Len(msgs) :
           /\ msgs[i].isUser
           /\ \A k \in 1..(i - 1) : ~msgs[k].isUser
    ELSE 0

\* a title cut at 30 characters without the "..." mark
TitleForNoEllipsis(newMessages, prevTitle) ==
  LET u == FirstUser(newMessages)
  IN IF u # 0 /\ newMessages[u].text # <<>>
       THEN Slice(newMessages[u].text, TitleMax)
       ELSE IF prevTitle # <<>> THEN prevTitle ELSE NewChatTitle

\* the title computed by updateCurrentChatWithId
TitleFor(newMessages, prevTitle) ==
  LET u == FirstUser(newMessages)
  IN IF u # 0 /\ newMessages[u].text # <<>>
       THEN Slice(newMessages[u].text, TitleMax)
              \o (IF Len(newMessages[u].text) > TitleMax THEN Ellipsis ELSE <<>>)
       ELSE IF prevTitle # <<>> THEN prevTitle ELSE NewChatTitle

\* the updater of updateCurrentChatWithId: the next value of chats
UpdateCurrentChatWithId(cs, chatId, newMessages, t) ==
  LET i == FindIndex(cs, chatId)
  IN IF i = 0 THEN cs
     ELSE [cs EXCEPT ![i] = Chat(@.id, TitleFor(newMessages, @.title), newMessages,
                                 @.createdAt, t)]

\* the saves updateCurrentChatWithId issues: one when the chat is found
UpdateSaves(cs, chatId, newMessages, t) ==
  IF FindIndex(cs, chatId) = 0 THEN <<>>
  ELSE <<UpdateCurrentChatWithId(cs, chatId, newMessages, t)>>

\* prev.map(msg => msg.id === id ? { ...msg, text } : msg)
MapText(msgs, id, txt) ==
  [i \in 1..Len(msgs) |-> IF msgs[i].id = id THEN [msgs[i] EXCEPT !.text = txt] ELSE msgs[i]]

\* prev.map(msg => msg.id === id ? { ...msg, text, id: newId } : msg)
MapTextId(msgs, id, txt, newId) ==
  [i \in 1..Len(msgs) |->
     IF msgs[i].id = id THEN [msgs[i] EXCEPT !.text = txt, !.id = newId] ELSE msgs[i]]

\* generateResponse: the reply text, "Error: " + message, or the apology
GenerateResponse(o) ==
  CASE o.k = "text" -> o.v
    [] o.k = "error" -> ErrorPrefix \o <<" ">> \o o.v
    [] OTHER -> SorryText

\* ------------------------------------------------------------------- state
VARIABLES
  now,                \* Date.now()
  chats,              \* useState<Chat[]>
  currentChatId,      \* useState<string | null>
  messages,           \* useState<Message[]>
  isLoading,          \* useState(false)
  isStreaming,        \* useState(false)
  streamIntervalRef,  \* useRef<number | null>: a handle, 0 for null
  timers,             \* the intervals made by setInterval, by handle
  calls,              \* awaited generateResponse calls with their closures
  storage,            \* the value under the key 'chats'
  pendingWrites,      \* AsyncStorage.setItem calls not yet settled, in issue order
  loadPending,        \* the initial loadChats has not resumed after getItem
  lastSaved,          \* the argument of the latest saveChatsToStorage call
  presses,            \* how many controls the user has pressed
  stopped,            \* the reveal the latest handleStopGeneration cancelled
  getItemResult,      \* what the getItem('chats') issued at mount settles with
  delAll,             \* the deleteNext chain of handleDeleteAllChats and its closure
  errorLogged         \* saveChatsToStorage has caught and logged a failed write

vars ==
  <<now, chats, currentChatId, messages, isLoading, isStreaming, streamIntervalRef,
    timers, calls, storage, pendingWrites, loadPending, lastSaved, presses, stopped,
    getItemResult, delAll, errorLogged>>

NoTimer ==
  [live |-> FALSE, kind |-> "none", chatId |-> Null, target |-> Null,
   response |-> <<>>, words |-> <<>>, idx |-> 0, cur |-> <<>>, done |-> FALSE]

Handles == 1..MaxTimers

NoReveal == [on |-> FALSE, target |-> Null, words |-> <<>>]

\* no deleteNext chain is running
NoChain == [on |-> FALSE, ids |-> <<>>, index |-> 0, cur |-> Null]

\* a session stored by an earlier run of the app: "new chat" pressed at time 0
OldChat == Chat(IdStr("", 0), NewChatTitle, <<>>, 0, 0)

\* what an earlier run can have left under 'chats': nothing, one session, or
\* the empty array written when its last session was deleted
InitialBlobs == {NullBlob, SaveChatsToStorage(<<OldChat>>), SaveChatsToStorage(<<>>)}

\* a session of an earlier run that holds a conversation
TalkChat ==
  Chat(IdStr("", -1), <<"h", "i">>,
       <<Message(IdStr("", -1), <<"h", "i">>, TRUE), Message(IdStr("", -1), ReplyAB, FALSE)>>,
       -1, 0)

\* stored records: sound, or with a value of a wrong type in one or all fields
LoadRecords ==
  {Damaged(c, F) : c \in {OldChat, TalkChat},
                   F \in {{}} \cup {{f} : f \in Fields} \cup {Fields}}

\* stored values: arrays of one or two records, and what is no array
LoadBlobs ==
  {[kind |-> "array", items |-> <<r>>] : r \in LoadRecords}
    \cup {[kind |-> "array", items |-> <<r, q>>] : r \in LoadRecords, q \in LoadRecords}
    \cup {NullBlob, GarbageBlob, ObjectBlob}

\* the state at mount, with the stored value one of blobs and the read of
\* loadChats settling with that value or with one of failures
Boot(blobs, failures) ==
  /\ now = 1
  /\ chats = <<>>
  /\ currentChatId = Null
  /\ messages = <<>>
  /\ isLoading = FALSE
  /\ isStreaming = FALSE
  /\ streamIntervalRef = 0
  /\ timers = [h \in Handles |-> NoTimer]
  /\ calls = <<>>
  /\ storage \in blobs
  /\ getItemResult \in {storage} \cup failures
  /\ pendingWrites = <<>>
  /\ loadPending = TRUE
  /\ lastSaved = [some |-> FALSE, chats |-> <<>>]
  /\ presses = 0
  /\ stopped = NoReveal
  /\ delAll = NoChain
  /\ errorLogged = FALSE

Init == Boot(InitialBlobs, {})

\* storage has settled every write issued so far: the events of the app are
\* taken one at a time, each after the writes of the one before
Settled == pendingWrites = <<>>

\* the user presses a control
Press ==
  /\ presses < MaxUser
  /\ presses' = presses + 1

\* the effect of the saveChatsToStorage calls of one handler, in call order
Issue(saves) ==
  /\ pendingWrites' = pendingWrites \o [i \in 1..Len(saves) |-> SaveChatsToStorage(saves[i])]
  /\ lastSaved' = IF saves = <<>> THEN lastSaved
                  ELSE [some |-> TRUE, chats |-> saves[Len(saves)]]

\* ----------------------------------------------------------------- actions
AdvanceClock ==
  /\ UNCHANGED <<getItemResult, delAll, errorLogged>>
  /\ Settled
  /\ UNCHANGED presses
  /\ now < MaxClock
  /\ now' = now + 1
  /\ UNCHANGED <<stopped, chats, currentChatId, messages, isLoading, isStreaming, streamIntervalRef,
                 timers, calls, storage, pendingWrites, loadPending, lastSaved>>

\* loadChats resumes after await AsyncStorage.getItem('chats')
LoadChats ==
  /\ UNCHANGED <<getItemResult, delAll, errorLogged>>
  /\ Settled
  /\ UNCHANGED presses
  /\ loadPending
  /\ loadPending' = FALSE
  /\ IF Parses(getItemResult)
       THEN LET sortedChats == LoadedChats(getItemResult)
            IN /\ chats' = sortedChats
               /\ IF sortedChats # <<>>
                    THEN /\ currentChatId' = sortedChats[1].id
                         /\ messages' = sortedChats[1].messages
                    ELSE UNCHANGED <<currentChatId, messages>>
       ELSE /\ chats' = <<>>
            /\ currentChatId' = Null
            /\ messages' = <<>>
  /\ UNCHANGED <<stopped, now, isLoading, isStreaming, streamIntervalRef, timers, calls, storage,
                 pendingWrites, lastSaved>>

\* a store that serializes its writes: a write that resolves after one issued
\* later has been stored is dropped
WriteCompleteInOrder(i) ==
  /\ UNCHANGED <<getItemResult, delAll, errorLogged>>
  /\ UNCHANGED presses
  /\ i \in 1..Len(pendingWrites)
  /\ storage' = IF storage = SaveChatsToStorage(lastSaved.chats) THEN storage
                ELSE pendingWrites[i]
  /\ pendingWrites' = SubSeq(pendingWrites, 1, i - 1) \o SubSeq(pendingWrites, i + 1, Len(pendingWrites))
  /\ UNCHANGED <<stopped, now, chats, currentChatId, messages, isLoading, isStreaming,
                 streamIntervalRef, timers, calls, loadPending, lastSaved>>

\* AsyncStorage.setItem of the i-th pending write resolves
WriteComplete(i) ==
  /\ UNCHANGED <<getItemResult, delAll, errorLogged>>
  /\ UNCHANGED presses
  /\ i \in 1..Len(pendingWrites)
  /\ storage' = pendingWrites[i]
  /\ pendingWrites' = SubSeq(pendingWrites, 1, i - 1) \o SubSeq(pendingWrites, i + 1, Len(pendingWrites))
  /\ UNCHANGED <<stopped, now, chats, currentChatId, messages, isLoading, isStreaming,
                 streamIntervalRef, timers, calls, loadPending, lastSaved>>

\* a failed write that puts the collection back to what is stored
WriteFailRollsBack(i) ==
  /\ UNCHANGED <<getItemResult, delAll>>
  /\ errorLogged' = TRUE
  /\ UNCHANGED presses
  /\ i \in 1..Len(pendingWrites)
  /\ pendingWrites' = SubSeq(pendingWrites, 1, i - 1) \o SubSeq(pendingWrites, i + 1, Len(pendingWrites))
  /\ chats' = LoadedChats(storage)
  /\ UNCHANGED <<stopped, now, currentChatId, messages, isLoading, isStreaming,
                 streamIntervalRef, timers, calls, storage, loadPending, lastSaved>>

\* AsyncStorage.setItem of the i-th pending write rejects (caught and logged)
WriteFail(i) ==
  /\ UNCHANGED <<getItemResult, delAll>>
  /\ errorLogged' = TRUE
  /\ UNCHANGED presses
  /\ i \in 1..Len(pendingWrites)
  /\ pendingWrites' = SubSeq(pendingWrites, 1, i - 1) \o SubSeq(pendingWrites, i + 1, Len(pendingWrites))
  /\ UNCHANGED <<stopped, now, chats, currentChatId, messages, isLoading, isStreaming,
                 streamIntervalRef, timers, calls, storage, loadPending, lastSaved>>

\* createNewChat (menu "new chat")
CreateNewChat ==
  /\ UNCHANGED <<getItemResult, delAll, errorLogged>>
  /\ Settled
  /\ Press
  /\ LET saved == IF currentChatId # Null
                    THEN UpdateCurrentChatWithId(chats, currentChatId, messages, now)
                    ELSE chats
         firstSave == IF currentChatId # Null
                        THEN UpdateSaves(chats, currentChatId, messages, now)
                        ELSE <<>>
         newChat == Chat(IdStr("", now), NewChatTitle, <<>>, now, now)
         updatedChats == <<newChat>> \o saved
     IN /\ chats' = updatedChats
        /\ Issue(firstSave \o <<updatedChats>>)
        /\ currentChatId' = newChat.id
        /\ messages' = <<>>
  /\ UNCHANGED <<stopped, now, isLoading, isStreaming, streamIntervalRef, timers, calls, storage,
                 loadPending>>

\* a filter that drops only the first session with the id
WithoutFirstChat(cs, chatId) ==
  LET i == FindIndex(cs, chatId)
  IN IF i = 0 THEN cs ELSE SubSeq(cs, 1, i - 1) \o SubSeq(cs, i + 1, Len(cs))

\* currentChats.filter(chat => chat.id !== chatId)
WithoutChat(cs, chatId) == SelectSeq(cs, LAMBDA c : c.id # chatId)

\* the body of deleteChat(chatId), run by a closure whose currentChatId is cur
DeleteChatAs(chatId, cur) ==
  LET updatedChats == WithoutChat(chats, chatId)
  IN /\ chats' = updatedChats
     /\ Issue(<<updatedChats>>)
     /\ IF cur = chatId
          THEN IF updatedChats # <<>>
                 THEN /\ currentChatId' = updatedChats[1].id
                      /\ messages' = updatedChats[1].messages
                 ELSE /\ currentChatId' = Null
                      /\ messages' = <<>>
          ELSE UNCHANGED <<currentChatId, messages>>

\* deleteChat(chatId) from the menu row of a listed chat
DeleteChat(chatId) ==
  /\ UNCHANGED <<getItemResult, delAll, errorLogged>>
  /\ Settled
  /\ Press
  /\ FindIndex(chats, chatId) # 0
  /\ DeleteChatAs(chatId, currentChatId)
  /\ UNCHANGED <<stopped, now, isLoading, isStreaming, streamIntervalRef, timers, calls, storage,
                 loadPending>>

\* handleDeleteAllChats, confirmed: deleteNext(0) runs at once and schedules
\* deleteNext(1) over the chats and the deleteChat of this render
HandleDeleteAllChats ==
  /\ Settled
  /\ Press
  /\ ~delAll.on
  /\ chats # <<>>
  /\ DeleteChatAs(chats[1].id, currentChatId)
  /\ delAll' = [on |-> TRUE, ids |-> [i \in 1..Len(chats) |-> chats[i].id], index |-> 1,
                cur |-> currentChatId]
  /\ UNCHANGED <<stopped, now, isLoading, isStreaming, streamIntervalRef, timers, calls, storage,
                 loadPending, getItemResult, errorLogged>>

\* the timeout of the chain fires: deleteNext(index)
DeleteNext ==
  /\ Settled
  /\ UNCHANGED presses
  /\ delAll.on
  /\ IF delAll.index >= Len(delAll.ids)
       THEN /\ delAll' = NoChain
            /\ UNCHANGED <<chats, currentChatId, messages, pendingWrites, lastSaved>>
       ELSE /\ DeleteChatAs(delAll.ids[delAll.index + 1], delAll.cur)
            /\ delAll' = [delAll EXCEPT !.index = @ + 1]
  /\ UNCHANGED <<stopped, now, isLoading, isStreaming, streamIntervalRef, timers, calls, storage,
                 loadPending, getItemResult, errorLogged>>

\* switchChat(chatId): the current chat is saved, then the chat is looked up
\* in the chats of this render
SwitchChat(chatId) ==
  /\ UNCHANGED <<getItemResult, delAll, errorLogged>>
  /\ Settled
  /\ Press
  /\ chats' = IF currentChatId # Null
                THEN UpdateCurrentChatWithId(chats, currentChatId, messages, now)
                ELSE chats
  /\ Issue(IF currentChatId # Null
             THEN UpdateSaves(chats, currentChatId, messages, now)
             ELSE <<>>)
  /\ IF FindIndex(chats, chatId) # 0
       THEN /\ currentChatId' = chatId
            /\ messages' = chats[FindIndex(chats, chatId)].messages
       ELSE UNCHANGED <<currentChatId, messages>>
  /\ UNCHANGED <<stopped, now, isLoading, isStreaming, streamIntervalRef, timers, calls, storage,
                 loadPending>>

\* handleChatPress(chatId) on the menu row of a listed chat
HandleChatPress(chatId) ==
  /\ FindIndex(chats, chatId) # 0
  /\ SwitchChat(chatId)

\* the smallest handle setInterval can return
FreeHandle == CHOOSE h \in Handles : ~timers[h].live /\ \A k \in 1..(h - 1) : timers[k].live

\* streamIntervalRef.current = setInterval(...): a new interval and its closure
StartTimer(kind, chatId, target, response) ==
  /\ \E h \in Handles : ~timers[h].live
  /\ timers' = [timers EXCEPT ![FreeHandle] =
                  [live |-> TRUE, kind |-> kind, chatId |-> chatId, target |-> target,
                   response |-> response, words |-> SplitOnSpace(response),
                   idx |-> 0, cur |-> <<>>, done |-> FALSE]]
  /\ streamIntervalRef' = FreeHandle

\* handleSubmit up to its await, pressed on the submit button
HandleSubmit(p) ==
  /\ UNCHANGED <<getItemResult, delAll, errorLogged>>
  /\ Settled
  /\ Press
  /\ Trim(p) # <<>>
  /\ ~isLoading
  /\ ~isStreaming
  /\ LET creating == currentChatId = Null
         chatId == IF creating THEN IdStr("", now) ELSE currentChatId
         newChat == Chat(chatId, NewChatTitle, <<>>, now, now)
         withNew == IF creating THEN <<newChat>> \o chats ELSE chats
         userMessage == Message(IdStr("", now), Trim(p), TRUE)
         loadingMessage == Message(IdStr(LoadingPrefix, now), Thinking, FALSE)
         newMessages == messages \o <<userMessage, loadingMessage>>
     IN /\ currentChatId' = chatId
        /\ messages' = newMessages
        /\ chats' = UpdateCurrentChatWithId(withNew, chatId, newMessages, now)
        /\ Issue((IF creating THEN <<withNew>> ELSE <<>>)
                   \o UpdateSaves(withNew, chatId, newMessages, now))
        /\ calls' = Append(calls, [kind |-> "submit", chatId |-> chatId,
                                   target |-> loadingMessage.id])
        /\ stopped' = IF stopped.target = loadingMessage.id THEN NoReveal ELSE stopped
  /\ isLoading' = TRUE
  /\ UNCHANGED <<now, isStreaming, streamIntervalRef, timers, storage, loadPending>>

\* the retry icon is rendered under the j-th displayed message
RetryOffered(j) ==
  /\ ~messages[j].isUser
  /\ messages[j].text # Thinking
  /\ ~StartsWith(messages[j].text, ErrorPrefix)

\* messages.findIndex(m => m.id === item.id) for the j-th displayed message, 1-based
RetryIndex(j) ==
  CHOOSE i \in 1..Len(messages) :
    /\ messages[i].id = messages[j].id
    /\ \A k \in 1..(i - 1) : messages[k].id # messages[j].id

\* the text of the last user message before the retried one, '' when none
RetryUserText(j) ==
  LET before == {i \in 1..(RetryIndex(j) - 1) : messages[i].isUser}
  IN IF before = {} THEN <<>>
     ELSE messages[CHOOSE i \in before : \A k \in before : k <= i].text

\* handleRetry(item) goes on to generateResponse for the j-th displayed message
RetryAccepts(j) ==
  /\ ~messages[j].isUser
  /\ ~StartsWith(messages[j].text, ErrorPrefix)
  /\ RetryIndex(j) > 1
  /\ RetryUserText(j) # <<>>

\* the retry icon of the j-th displayed message: handleRetry up to its await
HandleRetry(j) ==
  /\ UNCHANGED <<getItemResult, delAll, errorLogged>>
  /\ Settled
  /\ Press
  /\ j \in 1..Len(messages)
  /\ LET item == messages[j]
         updated == MapText(messages, item.id, Thinking)
     IN /\ RetryOffered(j)
        /\ RetryAccepts(j)
        /\ messages' = updated
        /\ chats' = IF currentChatId # Null
                      THEN UpdateCurrentChatWithId(chats, currentChatId, updated, now)
                      ELSE chats
        /\ Issue(IF currentChatId # Null
                   THEN UpdateSaves(chats, currentChatId, updated, now)
                   ELSE <<>>)
        /\ calls' = Append(calls, [kind |-> "retry", chatId |-> currentChatId,
                                   target |-> item.id])
        /\ stopped' = IF stopped.target = item.id THEN NoReveal ELSE stopped
  /\ isLoading' = TRUE
  /\ UNCHANGED <<now, currentChatId, isStreaming, streamIntervalRef, timers, storage,
                 loadPending>>

\* updateCurrentChatWithId(chatId, ...) of handleSubmit, or updateCurrentChat(...)
\* of handleRetry with the currentChatId its closure captured
ClosureUpdate(chatId, updated) ==
  /\ chats' = IF chatId # Null
                THEN UpdateCurrentChatWithId(chats, chatId, updated, now)
                ELSE chats
  /\ Issue(IF chatId # Null THEN UpdateSaves(chats, chatId, updated, now) ELSE <<>>)

\* the i-th awaited generateResponse call settles with outcome o, and the
\* handler runs from its await to its end
Respond(i, o) ==
  /\ UNCHANGED <<getItemResult, delAll, errorLogged>>
  /\ Settled
  /\ UNCHANGED presses
  /\ i \in 1..Len(calls)
  /\ LET call == calls[i]
         response == GenerateResponse(o)
     IN /\ calls' = SubSeq(calls, 1, i - 1) \o SubSeq(calls, i + 1, Len(calls))
        /\ IF StartsWith(response, ErrorPrefix)
             THEN /\ messages' = MapText(messages, call.target, response)
                  /\ ClosureUpdate(call.chatId, messages')
                  /\ UNCHANGED <<isStreaming, streamIntervalRef, timers>>
             ELSE /\ IF call.kind = "submit"
                       THEN /\ messages' = MapText(messages, call.target, <<>>)
                            /\ ClosureUpdate(call.chatId, messages')
                       ELSE UNCHANGED <<messages, chats, pendingWrites, lastSaved>>
                  /\ isStreaming' = TRUE
                  /\ StartTimer(call.kind, call.chatId, call.target, response)
  /\ isLoading' = FALSE
  /\ UNCHANGED <<stopped, now, currentChatId, storage, loadPending>>

\* one firing of the interval with handle h
Tick(h) ==
  /\ UNCHANGED <<getItemResult, delAll, errorLogged>>
  /\ Settled
  /\ UNCHANGED presses
  /\ h \in Handles
  /\ timers[h].live
  /\ LET tm == timers[h]
     IN IF tm.idx < Len(tm.words)
          THEN LET currentText == tm.cur \o tm.words[tm.idx + 1]
               IN /\ messages' = MapText(messages, tm.target, currentText)
                  /\ ClosureUpdate(tm.chatId, messages')
                  /\ timers' = [timers EXCEPT ![h].cur = currentText, ![h].idx = tm.idx + 1]
                  /\ UNCHANGED <<streamIntervalRef, isStreaming>>
          ELSE /\ timers' = [k \in Handles |->
                               IF k = streamIntervalRef THEN NoTimer
                               ELSE IF k = h THEN [tm EXCEPT !.done = TRUE]
                               ELSE timers[k]]
               /\ streamIntervalRef' = 0
               /\ isStreaming' = FALSE
               /\ messages' = IF tm.kind = "submit"
                                THEN MapTextId(messages, tm.target, tm.response, IdStr("", now))
                                ELSE MapText(messages, tm.target, tm.response)
               /\ ClosureUpdate(tm.chatId, messages')
  /\ UNCHANGED <<stopped, now, currentChatId, isLoading, calls, storage, loadPending>>

\* handleStopGeneration, pressed on the stop button
HandleStopGeneration ==
  /\ UNCHANGED <<getItemResult, delAll, errorLogged>>
  /\ Settled
  /\ Press
  /\ isLoading \/ isStreaming
  /\ timers' = [k \in Handles |-> IF k = streamIntervalRef THEN NoTimer ELSE timers[k]]
  /\ streamIntervalRef' = 0
  /\ isLoading' = FALSE
  /\ isStreaming' = FALSE
  /\ stopped' = IF streamIntervalRef # 0 /\ timers[streamIntervalRef].idx >= 1
                     /\ ~timers[streamIntervalRef].done
                  THEN [on |-> TRUE, target |-> timers[streamIntervalRef].target,
                        words |-> timers[streamIntervalRef].words]
                  ELSE stopped
  /\ UNCHANGED <<now, chats, currentChatId, messages, calls, storage, pendingWrites,
                 loadPending, lastSaved>>

\* the ids a session can have: Date.now().toString() of this run or an earlier one
ChatIds == {IdStr("", t) : t \in 0..MaxClock}

\* an event of the app, or the oldest pending write settling
Next ==
  \/ WriteComplete(1)
  \/ AdvanceClock
  \/ LoadChats
  \/ CreateNewChat
  \/ \E c \in ChatIds : DeleteChat(c)
  \/ \E c \in ChatIds : HandleChatPress(c)
  \/ HandleDeleteAllChats
  \/ DeleteNext
  \/ \E p \in Prompts : HandleSubmit(p)
  \/ \E j \in 1..MaxMsgs : HandleRetry(j)
  \/ \E i \in 1..MaxCalls, o \in Outcomes : Respond(i, o)
  \/ \E h \in Handles : Tick(h)
  \/ HandleStopGeneration

Spec == Init /\ [][Next]_vars

\* mount over any stored value, the read of loadChats possibly failing, with
\* the user starting a chat before loadChats has resumed
InitLoad == Boot(LoadBlobs, {ReadRejected})

NextLoad ==
  \/ WriteComplete(1)
  \/ LoadChats
  \/ CreateNewChat
  \/ \E p \in Prompts : HandleSubmit(p)

SpecLoad == InitLoad /\ [][NextLoad]_vars

\* the app with a caller that hands switchChat a stale id: any id a session
\* can have, listed or not
NextStale ==
  \/ Next
  \/ \E c \in ChatIds : SwitchChat(c)

SpecStale == Init /\ [][NextStale]_vars

\* the conversation alone (submit, retry, stop, replies and ticks), with
\* intervals that keep firing and writes that keep settling
NextReveal ==
  \/ WriteComplete(1)
  \/ LoadChats
  \/ \E p \in Prompts : HandleSubmit(p)
  \/ \E j \in 1..MaxMsgs : HandleRetry(j)
  \/ \E i \in 1..MaxCalls, o \in Outcomes : Respond(i, o)
  \/ \E h \in Handles : Tick(h)
  \/ HandleStopGeneration

FairReveal ==
  /\ WF_vars(WriteComplete(1))
  /\ \A h \in Handles : WF_vars(Tick(h))

SpecReveal == Init /\ [][NextReveal]_vars /\ FairReveal

\* submits, without stop or retry, whose generateResponse calls all fail
NextFailures ==
  \/ WriteComplete(1)
  \/ AdvanceClock
  \/ LoadChats
  \/ \E p \in Prompts : HandleSubmit(p)
  \/ \E i \in 1..MaxCalls, o \in FailureOutcomes : Respond(i, o)
  \/ \E h \in Handles : Tick(h)

SpecFailures == Init /\ [][NextFailures]_vars

\* the session of one finished exchange: "hi" submitted at clock 1, the reply
\* " c" revealed in full at clock 2, which names the finished message
FirstExchange ==
  Chat(IdStr("", 1), Trim(PromptShort),
       <<Message(IdStr("", 1), Trim(PromptShort), TRUE),
         Message(IdStr("", 2), ReplyC, FALSE)>>, 1, 2)

\* the app once that exchange has ended and its writes have settled, with the
\* read that loadChats issued at mount still outstanding
InitCollide ==
  /\ now = 2
  /\ chats = <<FirstExchange>>
  /\ currentChatId = FirstExchange.id
  /\ messages = FirstExchange.messages
  /\ isLoading = FALSE
  /\ isStreaming = FALSE
  /\ streamIntervalRef = 0
  /\ timers = [h \in Handles |-> NoTimer]
  /\ calls = <<>>
  /\ storage = SaveChatsToStorage(<<FirstExchange>>)
  /\ getItemResult = SaveChatsToStorage(<<OldChat>>)
  /\ pendingWrites = <<>>
  /\ loadPending = TRUE
  /\ lastSaved = [some |-> TRUE, chats |-> <<FirstExchange>>]
  /\ presses = 0
  /\ stopped = NoReveal
  /\ delAll = NoChain
  /\ errorLogged = FALSE

\* retries, stops and submits that follow it while Date.now() stays at 2
SpecCollide == InitCollide /\ [][NextReveal]_vars

\* the session handleSubmit creates for "hi" at clock 1 when none is current
EarlyChat ==
  Chat(IdStr("", 1), Trim(PromptShort),
       <<Message(IdStr("", 1), Trim(PromptShort), TRUE),
         Message(IdStr(LoadingPrefix, 1), Thinking, FALSE)>>, 1, 1)

\* the app after a submit that came before loadChats resumed: its writes have
\* settled, its generateResponse call is still awaited, and loadChats has
\* since replaced the collection by the stored one and selected its session
InitOvertaken ==
  /\ now = 1
  /\ chats = <<OldChat>>
  /\ currentChatId = OldChat.id
  /\ messages = OldChat.messages
  /\ isLoading = TRUE
  /\ isStreaming = FALSE
  /\ streamIntervalRef = 0
  /\ timers = [h \in Handles |-> NoTimer]
  /\ calls = <<[kind |-> "submit", chatId |-> EarlyChat.id,
                target |-> IdStr(LoadingPrefix, 1)]>>
  /\ storage = SaveChatsToStorage(<<EarlyChat>>)
  /\ getItemResult = SaveChatsToStorage(<<OldChat>>)
  /\ pendingWrites = <<>>
  /\ loadPending = FALSE
  /\ lastSaved = [some |-> TRUE, chats |-> <<EarlyChat>>]
  /\ presses = 0
  /\ stopped = NoReveal
  /\ delAll = NoChain
  /\ errorLogged = FALSE

\* what the user and the pending call can do from there
NextOvertaken ==
  \/ WriteComplete(1)
  \/ AdvanceClock
  \/ CreateNewChat
  \/ \E p \in Prompts : HandleSubmit(p)
  \/ \E i \in 1..MaxCalls, o \in Outcomes : Respond(i, o)
  \/ \E h \in Handles : Tick(h)
  \/ HandleStopGeneration

SpecOvertaken == InitOvertaken /\ [][NextOvertaken]_vars

\* the store with writes that settle in any order and may fail: sessions are
\* created, given their first messages, selected and deleted
NextWrites ==
  \/ \E i \in 1..MaxPending : WriteComplete(i)
  \/ \E i \in 1..MaxPending : WriteFail(i)
  \/ AdvanceClock
  \/ LoadChats
  \/ CreateNewChat
  \/ \E c \in ChatIds : DeleteChat(c)
  \/ \E c \in ChatIds : HandleChatPress(c)
  \/ \E p \in Prompts : HandleSubmit(p)

SpecWrites == Init /\ [][NextWrites]_vars

\* ------------------------------------------------------- claim vocabulary
\* a list of sessions is in descending order of updatedAt
SortedDesc(cs) == \A i \in 1..(Len(cs) - 1) : cs[i].updatedAt >= cs[i + 1].updatedAt

\* the sessions of a stored array, field by field
StoredChats(blob) == [i \in 1..Len(blob.items) |-> ChatOfJson(blob.items[i])]

\* the two lists hold the same sessions, each as often, in any order
SameSessions(a, b) ==
  /\ Len(a) = Len(b)
  /\ \A i \in 1..Len(a) :
       Cardinality({k \in 1..Len(a) : a[k] = a[i]}) = Cardinality({k \in 1..Len(b) : b[k] = a[i]})

\* what the round trip has to keep of a session
Kept(c) == [id |-> c.id, title |-> c.title, messages |-> c.messages]

KeptOf(cs) == [i \in 1..Len(cs) |-> Kept(cs[i])]

\* the title the specification asks for
ExpectedTitle(txt) ==
  IF Len(txt) <= TitleMax THEN txt ELSE SubSeq(txt, 1, TitleMax) \o Ellipsis

HasUser(msgs) == \E i \in 1..Len(msgs) : msgs[i].isUser

\* a step of the store that neither loads nor deletes: it keeps every session,
\* behind the sessions it adds in front
StoreStep == loadPending' = loadPending /\ Len(chats') >= Len(chats)

Shift == Len(chats') - Len(chats)

\* txt is the concatenation of the first k tokens, for some k
IsTokenPrefix(txt, ws) == \E k \in 0..Len(ws) : txt = Concat(ws, k)

\* new keeps every message of old, in place; the text and id of an assistant
\* message may differ
Extends(old, new) ==
  /\ Len(new) >= Len(old)
  /\ \A k \in 1..Len(old) :
       /\ new[k].isUser = old[k].isUser
       /\ old[k].isUser => new[k] = old[k]

\* a text generateResponse returns for a failed call
IsFailureText(txt) == StartsWith(txt, ErrorPrefix) \/ txt = SorryText

\* ------------------------------------------------------------------ claims
\* C1: in every reachable state the in-memory session list is sorted by
\* updatedAt descending (so an updated session would be at index 0).
C1_ChatsSortedByUpdatedAt == SortedDesc(chats)

\* C2: in every reachable state no two sessions have the same id, in memory
\* and in the persisted blob.
C2_SessionIdsUnique ==
  /\ \A i, j \in 1..Len(chats) : i # j => chats[i].id # chats[j].id
  /\ \A i, j \in 1..Len(storage.items) : i # j => storage.items[i].id # storage.items[j].id

\* C3: a session with a user-authored message has the title derived from the
\* first such message (the text when it has at most 30 characters, else its
\* first 30 characters and "..."); an update with a list without user-authored
\* message keeps the session's previous title, "New Chat" for a fresh session.
C3_TitleState ==
  \A i \in 1..Len(chats) :
    HasUser(chats[i].messages) =>
      chats[i].title = ExpectedTitle(chats[i].messages[FirstUser(chats[i].messages)].text)

C3_TitleStep ==
  StoreStep =>
    /\ \A i \in 1..Len(chats) :
         ~HasUser(chats'[i + Shift].messages) => chats'[i + Shift].title = chats[i].title
    /\ \A i \in 1..Shift :
         ~HasUser(chats'[i].messages) => chats'[i].title = NewChatTitle

\* C3: the title derivation holds in every state and across every store step.
C3_TitleDerivation == [](C3_TitleState) /\ [][C3_TitleStep]_vars

C3_Witness ==
  \E i \in 1..Len(chats) :
    /\ HasUser(chats[i].messages)
    /\ Len(chats[i].messages[FirstUser(chats[i].messages)].text) > TitleMax
    /\ Len(chats[i].title) = TitleMax + 3

\* C4: when every write has settled, in issue order and with success, loading
\* the persisted blob yields the sessions of the list that was written last:
\* the same ids, titles and messages in the same order.
C4_RoundTrip ==
  (lastSaved.some /\ pendingWrites = <<>>) =>
    SameSessions(KeptOf(LoadedChats(storage)), KeptOf(lastSaved.chats))

C4_Witness ==
  /\ lastSaved.some
  /\ pendingWrites = <<>>
  /\ Len(lastSaved.chats) >= 2
  /\ ~SortedDesc(lastSaved.chats)
  /\ \E i \in 1..Len(lastSaved.chats) : lastSaved.chats[i].messages # <<>>

\* C5: every change of a kept session's stored messages keeps the messages
\* stored before, in place (only an assistant message's text and id may
\* change) and adds new ones at the end.
C5_MessagesAppendOnly ==
  [][StoreStep =>
       \A i \in 1..Len(chats) : Extends(chats[i].messages, chats'[i + Shift].messages)]_vars

\* C6: every value written under 'chats' is the list saveChatsToStorage was
\* given, sorted by updatedAt descending.
C6_WritesSorted ==
  /\ \A i \in 1..Len(pendingWrites) : SortedDesc(StoredChats(pendingWrites[i]))
  /\ lastSaved.some => SortedDesc(StoredChats(storage))
  /\ pendingWrites # <<>> =>
       SameSessions(StoredChats(pendingWrites[Len(pendingWrites)]), lastSaved.chats)

C6_Witness ==
  /\ pendingWrites # <<>>
  /\ ~SortedDesc(lastSaved.chats)
  /\ Len(pendingWrites[Len(pendingWrites)].items) >= 2

\* C7: the tokens of a response, concatenated, are the response, and the
\* text a reveal has accumulated after k ticks is the concatenation of its
\* first k tokens.
C7_LosslessTokens ==
  \A h \in Handles :
    timers[h].live =>
      /\ Concat(timers[h].words, Len(timers[h].words)) = timers[h].response
      /\ timers[h].cur = Concat(timers[h].words, timers[h].idx)

C7_Witness ==
  \E h \in Handles :
    /\ timers[h].live
    /\ Len(timers[h].words) >= 3
    /\ timers[h].idx = Len(timers[h].words)
    /\ \E i \in 1..Len(messages) :
         messages[i].id = timers[h].target /\ messages[i].text = timers[h].response

\* C8: after handleStopGeneration cancelled a reveal between two of its
\* ticks, and until the user starts a generation for that message again,
\* the target message's text is a concatenation of first tokens of the
\* response that was being revealed.
C8_StoppedTextIsPrefix ==
  stopped.on =>
    \A i \in 1..Len(messages) :
      messages[i].id = stopped.target => IsTokenPrefix(messages[i].text, stopped.words)

\* C9: a reveal timer is cleared when its reveal completes: no interval that
\* has run its completion branch is still live to fire again.
C9_NoTimerAfterCompletion == \A h \in Handles : timers[h].live => ~timers[h].done

\* C10: at most one live reveal timer writes a given message id.
C10_OneTimerPerMessage ==
  \A h, k \in Handles :
    (h # k /\ timers[h].live /\ timers[k].live) => timers[h].target # timers[k].target

\* C11: no reveal timer is started for a generateResponse call that failed,
\* whatever was thrown: no live interval reveals a failure text.
C11_NoRevealOfFailure ==
  \A h \in Handles : timers[h].live => ~IsFailureText(timers[h].response)

\* the step is switchChat(c), or the deleteChat(c) of a deleteNext, for an id
\* c that no session has
AbsentCall(c) ==
  /\ FindIndex(chats, c) = 0
  /\ \/ SwitchChat(c)
     \/ DeleteNext /\ delAll.index < Len(delAll.ids) /\ delAll.ids[delAll.index + 1] = c

WellTyped(j) ==
  /\ j.id.t = "string"
  /\ j.title.t = "string"
  /\ j.messages.t = "array"
  /\ j.createdAt.t = "number"
  /\ j.updatedAt.t = "number"

\* loadChats resumes in this step
LoadStep == loadPending /\ ~loadPending'

\* C13: the collection loadChats sets from a stored array holds exactly the
\* well-typed records of the array, each as often as it is stored; the
\* other records are dropped and take no well-typed record with them.
C13_LoadKeepsExactlyValid ==
  [][(LoadStep /\ getItemResult.kind = "array") =>
       LET kept == SelectSeq(getItemResult.items, WellTyped)
       IN SameSessions(chats', [i \in 1..Len(kept) |-> ChatOfJson(kept[i])])]_vars

C13_Witness ==
  /\ ~loadPending
  /\ getItemResult.kind = "array"
  /\ Len(getItemResult.items) = 2
  /\ Len(chats) = 1
  /\ chats[1] = TalkChat

\* C14: when the stored value is absent or is not JSON, or the read fails,
\* loadChats leaves an empty collection, no current session and an empty
\* displayed list, whatever the user did before it resumed.
C14_LoadFailsClosed ==
  [][(LoadStep /\ getItemResult.kind \in {"null", "garbage", "rejected"}) =>
       (chats' = <<>> /\ currentChatId' = Null /\ messages' = <<>>)]_vars

C14_Witness ==
  /\ ~loadPending
  /\ getItemResult.kind \in {"garbage", "rejected"}
  /\ presses > 0
  /\ chats = <<>>
  /\ currentChatId = Null
  /\ lastSaved.some

\* C15: a step that takes sessions away, other than the load, takes exactly
\* the sessions of one id, keeps the others unchanged and in order, and
\* issues a write of what remains; once the write of an emptied collection
\* has settled, the persisted blob is the empty array.
C15_DeleteRemovesExactly ==
  /\ [][(~LoadStep /\ Len(chats') < Len(chats)) =>
          /\ \E c \in ChatIds :
               /\ FindIndex(chats, c) # 0
               /\ chats' = SelectSeq(chats, LAMBDA x : x.id # c)
          /\ pendingWrites' # <<>>
          /\ SameSessions(StoredChats(pendingWrites'[Len(pendingWrites')]), chats')]_vars
  /\ []((Settled /\ lastSaved.some /\ lastSaved.chats = <<>>) =>
          (storage.kind = "array" /\ storage.items = <<>>))

C15_Witness ==
  /\ ~loadPending
  /\ getItemResult = SaveChatsToStorage(<<OldChat>>)
  /\ presses = 1
  /\ chats = <<>>
  /\ Settled
  /\ storage = Stringify(<<>>)

\* C16: when the deleteNext chain of handleDeleteAllChats ends, the
\* collection is empty and the value last handed to storage is the empty
\* array, whatever happened between the steps of the chain.
C16_DeleteAllEndsEmpty ==
  [][(delAll.on /\ ~delAll'.on) =>
       (chats' = <<>> /\ lastSaved'.some /\ lastSaved'.chats = <<>>)]_vars

\* handleSubmit accepts a prompt in this step
SubmitStep == ~isLoading /\ isLoading' /\ Len(messages') = Len(messages) + 2

\* C17: after handleSubmit accepted a prompt, a session of the collection
\* has the id that is now current and stores the messages displayed before,
\* followed by the user message with the trimmed prompt and a placeholder
\* with text "thinking"; the step adds a session only when none was current.
C17_SubmitStoresBothMessages ==
  [][SubmitStep =>
       /\ \E p \in Prompts :
            /\ SubSeq(messages', 1, Len(messages)) = messages
            /\ messages'[Len(messages) + 1].isUser
            /\ messages'[Len(messages) + 1].text = Trim(p)
            /\ ~messages'[Len(messages) + 2].isUser
            /\ messages'[Len(messages) + 2].text = Thinking
       /\ \E i \in 1..Len(chats') :
            chats'[i].id = currentChatId' /\ chats'[i].messages = messages'
       /\ Len(chats') > Len(chats) => currentChatId = Null]_vars

\* C18: a retry by the user on a failed assistant message that follows a
\* user message re-issues the call: the retry control is there for the
\* message and handleRetry goes on to generateResponse.
C18_RetryOfFailedReissues ==
  \A j \in 1..Len(messages) :
    (/\ ~messages[j].isUser
     /\ IsFailureText(messages[j].text)
     /\ RetryIndex(j) > 1
     /\ RetryUserText(j) # <<>>) => (RetryOffered(j) /\ RetryAccepts(j))

\* C19: with intervals that keep firing, the timer of every reveal that has
\* started is eventually cleared, by the completion of the reveal or by a
\* stop, and fires no more.
C19_RevealTimerEventuallyCleared ==
  \A h \in Handles : timers[h].live ~> ~timers[h].live

\* the interval h writes one more token in this step
TickStep(h) ==
  /\ timers[h].live
  /\ timers'[h].live
  /\ timers'[h].idx = timers[h].idx + 1

\* C20: after each tick that writes a token, the session the reveal was
\* started for stores the displayed message list, the target message is in
\* that list with the accumulated text, and a write has been issued.
C20_TickPersistsDisplayed ==
  [][\A h \in Handles :
       TickStep(h) =>
         \A i \in 1..Len(chats') :
           chats'[i].id = timers'[h].chatId =>
             /\ chats'[i].messages = messages'
             /\ \E k \in 1..Len(messages') :
                  /\ messages'[k].id = timers'[h].target
                  /\ messages'[k].text = timers'[h].cur
             /\ pendingWrites' # <<>>]_vars

\* a pending write settles in this step, stored or failed
SettleStep == Len(pendingWrites') < Len(pendingWrites)

DeletesCurrent ==
  /\ ~LoadStep
  /\ FindIndex(chats, currentChatId) # 0
  /\ FindIndex(chats', currentChatId) = 0

\* C23: a step that deletes the current session selects the first session of
\* the list that is left, which no other session of the list was updated
\* after, and displays its messages; with no session left it selects none
\* and displays no message. The deleteChat calls of delete-all are included.
C23_DeleteCurrentSelectsFirst ==
  [][DeletesCurrent =>
       IF chats' # <<>>
         THEN /\ currentChatId' = chats'[1].id
              /\ messages' = chats'[1].messages
              /\ \A i \in 1..Len(chats') : chats'[1].updatedAt >= chats'[i].updatedAt
         ELSE /\ currentChatId' = Null
              /\ messages' = <<>>]_vars

\* C24: createNewChat adds one session in front, titled "New Chat", without
\* messages, created and updated now; it selects that session, displays no
\* message, issues a write of the whole collection and keeps the id, title
\* and messages of every session that was there.
C24_CreateAddsOneInFront ==
  [][CreateNewChat =>
       /\ Len(chats') = Len(chats) + 1
       /\ chats'[1].title = NewChatTitle
       /\ chats'[1].messages = <<>>
       /\ chats'[1].createdAt = now
       /\ chats'[1].updatedAt = now
       /\ currentChatId' = chats'[1].id
       /\ messages' = <<>>
       /\ pendingWrites' # <<>>
       /\ pendingWrites'[Len(pendingWrites')] = SaveChatsToStorage(chats')
       /\ \A i \in 1..Len(chats) : Kept(chats'[i + 1]) = Kept(chats[i])]_vars

\* a is the beginning of b
IsPrefix(a, b) == Len(a) <= Len(b) /\ SubSeq(b, 1, Len(a)) = a

\* the reveal of interval h is under way: started, its last token not yet
\* followed by the completion
Revealing(h) == timers[h].live /\ ~timers[h].done

\* the interval h runs its completion branch for the first time in this step
CompletionStep(h) ==
  /\ Revealing(h)
  /\ timers[h].idx = Len(timers[h].words)
  /\ Tick(h)

\* the step keeps the displayed list: the same session, no load
SameList == currentChatId' = currentChatId /\ ~LoadStep /\ Len(messages') = Len(messages)

\* C25: while a reveal is under way the target message keeps its id, and each
\* tick writes a text that extends the text of the tick before; the
\* completion of a reveal started by handleSubmit gives the message a new
\* Date.now() id, the completion of one started by handleRetry keeps the id.
C25_RevealKeepsIdentity ==
  /\ [][\A h \in Handles :
          (Revealing(h) /\ SameList /\ ~CompletionStep(h)) =>
            \A k \in 1..Len(messages) :
              messages[k].id = timers[h].target => messages'[k].id = messages[k].id]_vars
  /\ [][\A h \in Handles :
          TickStep(h) =>
            /\ IsPrefix(timers[h].cur, timers'[h].cur)
            /\ \A k \in 1..Len(messages) :
                 messages[k].id = timers[h].target => messages'[k].text = timers'[h].cur]_vars
  /\ [][\A h \in Handles :
          CompletionStep(h) =>
            \A k \in 1..Len(messages) :
              messages[k].id = timers[h].target =>
                /\ messages'[k].text = timers[h].response
                /\ messages'[k].id = IF timers[h].kind = "submit" THEN IdStr("", now)
                                     ELSE messages[k].id]_vars

\* C26: the current session id is none or the id of a session of the
\* in-memory collection, and nothing is displayed while it is none.
C26_CurrentIsListed ==
  /\ (currentChatId # Null => FindIndex(chats, currentChatId) # 0)
  /\ (currentChatId = Null => messages = <<>>)

\* the stored array holds a record with the id of session c
StoredHolds(blob, c) ==
  /\ blob.kind = "array"
  /\ \E j \in 1..Len(blob.items) : blob.items[j].id = JsonOfChat(c).id

\* C27: with no session deleted, once all writes have completed the stored
\* array holds every session that the value read at startup held.
C27_StartupSessionsKept ==
  Settled =>
    \A i \in 1..Len(LoadedChats(getItemResult)) :
      StoredHolds(storage, LoadedChats(getItemResult)[i])

\* C28: handleStopGeneration leaves no reveal timer live, and a timer
\* becomes live only for a generation that is still awaited (isLoading, which
\* stop clears and only a later submit or retry sets).
C28_StopEndsGeneration ==
  /\ [][HandleStopGeneration => \A h \in Handles : ~timers'[h].live]_vars
  /\ [][(\E h \in Handles : ~timers[h].live /\ timers'[h].live) => isLoading]_vars

\* the reveal timers that are live
LiveTimers == {h \in Handles : timers[h].live}

\* C29: at most one reveal timer is live, and a timer is live exactly when
\* streamIntervalRef.current holds its handle and isStreaming is true.
C29_OneLiveTimer ==
  /\ Cardinality(LiveTimers) <= 1
  /\ \A h \in Handles : timers[h].live <=> (streamIntervalRef = h /\ isStreaming)

\* no two messages of the list share an id
UniqueIds(msgs) ==
  \A j, k \in 1..Len(msgs) : msgs[j].id = msgs[k].id => j = k

\* the positions of the displayed list whose message the step changes
Changed == {k \in 1..Len(messages) : k > Len(messages') \/ messages'[k] # messages[k]}

\* the step is a reveal tick, a completion, or the update a handler makes
\* when its response arrives
GenerationUpdate ==
  \/ \E h \in Handles : Revealing(h) /\ Tick(h)
  \/ \E i \in 1..MaxCalls, o \in Outcomes : Respond(i, o)

\* C30: no two displayed messages share an id, and a reveal tick, a
\* completion or an error update changes at most one displayed message and
\* keeps the length of the list.
C30_UpdateChangesTargetOnly ==
  /\ [](UniqueIds(messages))
  /\ [][GenerationUpdate =>
          /\ Len(messages') = Len(messages)
          /\ Cardinality(Changed) <= 1]_vars

====
